---- MODULE Spec2Model ----
(***************************************************************************)
(* FinSight-AI: the transaction ledger, the budget store and the budget    *)
(* evaluation of src/database.py, driven by the page handlers of           *)
(* src/main.py.                                                            *)
(*                                                                         *)
(* Money.  The two tables declare amount and monthly_limit DECIMAL(10,2)   *)
(* (database.py:83, :100): a stored value is a whole number of cents.  A   *)
(* value handed to the store is a Python float; it is written here in      *)
(* mills (thousandths of a currency unit) and the column rounds it to      *)
(* cents.  The page handlers convert what they read back to binary floats  *)
(* (main.py:204-205, :349-350): those are modelled as IEEE-754 doubles,    *)
(* correctly rounded, on arbitrary-precision naturals.                     *)
(*                                                                         *)
(* Dates.  Only the year and the month of a date take part in any          *)
(* operation of database.py besides ordering; a date is <<year, month>>.   *)
(***************************************************************************)
EXTENDS Integers, Sequences, FiniteSets, TLC

(***************************************************************************)
(* Arbitrary-precision naturals: little-endian sequences of limbs in       *)
(* radix 2^15 without high zero limbs (TLC's integers are 32 bits wide, a  *)
(* double's significand is 53).                                            *)
(***************************************************************************)
LimbBits == 15

Radix == 2 ^ LimbBits

RECURSIVE BigOfNat(_)
BigOfNat(n) == IF n = 0 THEN <<>> ELSE <<n % Radix>> \o BigOfNat(n \div Radix)

RECURSIVE Trim(_)
Trim(a) ==
    IF a = <<>> THEN <<>>
    ELSE IF a[Len(a)] = 0 THEN Trim(SubSeq(a, 1, Len(a) - 1)) ELSE a

Limb(a, i) == IF i <= Len(a) THEN a[i] ELSE 0

RECURSIVE AddFrom(_, _, _, _)
AddFrom(a, b, i, carry) ==
    IF i > Len(a) /\ i > Len(b)
    THEN IF carry = 0 THEN <<>> ELSE <<carry>>
    ELSE LET s == Limb(a, i) + Limb(b, i) + carry
         IN  <<s % Radix>> \o AddFrom(a, b, i + 1, s \div Radix)

BigAdd(a, b) == AddFrom(a, b, 1, 0)

RECURSIVE SubFrom(_, _, _, _)
SubFrom(a, b, i, borrow) ==
    IF i > Len(a) THEN <<>>
    ELSE LET s == a[i] - Limb(b, i) - borrow
         IN  IF s < 0 THEN <<s + Radix>> \o SubFrom(a, b, i + 1, 1)
                      ELSE <<s>> \o SubFrom(a, b, i + 1, 0)

\* a - b, for a >= b
BigSub(a, b) == Trim(SubFrom(a, b, 1, 0))

RECURSIVE CmpFrom(_, _, _)
CmpFrom(a, b, i) ==
    IF i = 0 THEN 0
    ELSE IF a[i] > b[i] THEN 1
    ELSE IF a[i] < b[i] THEN -1
    ELSE CmpFrom(a, b, i - 1)

\* -1, 0, 1 as a < b, a = b, a > b
BigCmp(a, b) ==
    IF Len(a) > Len(b) THEN 1
    ELSE IF Len(a) < Len(b) THEN -1
    ELSE CmpFrom(a, b, Len(a))

RECURSIVE MulSmallFrom(_, _, _, _)
MulSmallFrom(a, k, i, carry) ==
    IF i > Len(a)
    THEN IF carry = 0 THEN <<>> ELSE <<carry>>
    ELSE LET s == a[i] * k + carry
         IN  <<s % Radix>> \o MulSmallFrom(a, k, i + 1, s \div Radix)

\* a * k, for 0 <= k < Radix
BigMulSmall(a, k) == IF k = 0 THEN <<>> ELSE MulSmallFrom(a, k, 1, 0)

ShiftLimbs(a, n) == IF a = <<>> THEN <<>> ELSE [i \in 1..n |-> 0] \o a

RECURSIVE BigMul(_, _)
BigMul(a, b) ==
    IF b = <<>> THEN <<>>
    ELSE BigAdd(BigMulSmall(a, Head(b)), ShiftLimbs(BigMul(a, Tail(b)), 1))

\* a * 2^k
BigShl(a, k) == ShiftLimbs(BigMulSmall(a, 2 ^ (k % LimbBits)), k \div LimbBits)

RECURSIVE SmallBitLen(_)
SmallBitLen(n) == IF n = 0 THEN 0 ELSE 1 + SmallBitLen(n \div 2)

BigBitLen(a) ==
    IF a = <<>> THEN 0 ELSE LimbBits * (Len(a) - 1) + SmallBitLen(a[Len(a)])

BigIsOdd(a) == a # <<>> /\ a[1] % 2 = 1

(***************************************************************************)
(* Long division, a limb at a time from the top limb j of n downwards and  *)
(* within a limb w a bit at a time from bit i downwards: qr is the         *)
(* quotient and remainder of the bits already taken.                       *)
(***************************************************************************)
RECURSIVE DivBits(_, _, _, _)
DivBits(w, d, i, qr) ==
    IF i < 0 THEN qr
    ELSE LET r2 == AddFrom(BigMulSmall(qr.r, 2), <<>>, 1, (w \div 2 ^ i) % 2)
             q2 == BigMulSmall(qr.q, 2)
         IN  IF BigCmp(r2, d) >= 0
             THEN DivBits(w, d, i - 1, [q |-> AddFrom(q2, <<>>, 1, 1), r |-> BigSub(r2, d)])
             ELSE DivBits(w, d, i - 1, [q |-> q2, r |-> r2])

RECURSIVE DivLimbs(_, _, _, _)
DivLimbs(n, d, j, qr) ==
    IF j = 0 THEN qr
    ELSE LET next == DivBits(n[j], d, LimbBits - 1, qr)
         IN  IF BigCmp(next.r, d) < 0 THEN DivLimbs(n, d, j - 1, next) ELSE next

\* [q |-> n \div d, r |-> n % d], for d > 0
BigDivMod(n, d) == DivLimbs(n, d, Len(n), [q |-> <<>>, r |-> <<>>])

(***************************************************************************)
(* IEEE-754 doubles (Python's float): sign * m * 2^e with a significand m  *)
(* of exactly MantBits bits, or zero.  The values of this program stay far *)
(* from the exponent range's ends: no subnormal, infinity or NaN arises.   *)
(***************************************************************************)
MantBits == 53

FZero == [sign |-> 0, m |-> <<>>, e |-> 0]

\* sign * q * 2^e for a rounded quotient q of MantBits bits, or of one more
\* when the rounding carried out of the top bit
Pack(sign, q, e) ==
    IF BigBitLen(q) > MantBits
    THEN [sign |-> sign, m |-> BigShl(<<1>>, MantBits - 1), e |-> e + 1]
    ELSE [sign |-> sign, m |-> q, e |-> e]

\* round to nearest, ties to even: c compares twice the remainder with the divisor
RoundUp(qr, c) == c > 0 \/ (c = 0 /\ BigIsOdd(qr.q))

Nearest(qr, den) ==
    IF RoundUp(qr, BigCmp(BigMulSmall(qr.r, 2), den))
    THEN AddFrom(qr.q, <<>>, 1, 1)
    ELSE qr.q

\* num / den has a quotient of exactly MantBits bits
Quotient(sign, num, den, e) == Pack(sign, Nearest(BigDivMod(num, den), den), e)

\* (n / d) * 2^k as a ratio of naturals
Scaled(sign, n, d, e, k) ==
    Quotient(sign, IF k > 0 THEN BigShl(n, k) ELSE n,
                   IF k < 0 THEN BigShl(d, -k) ELSE d, e - k)

\* the k for which (n / d) * 2^k lies in [2^(MantBits-1), 2^MantBits): k0 or k0 - 1
Scale(n, d, k0) ==
    IF BigCmp(IF k0 > 0 THEN BigShl(n, k0) ELSE n,
              BigShl(IF k0 < 0 THEN BigShl(d, -k0) ELSE d, MantBits)) >= 0
    THEN k0 - 1
    ELSE k0

\* The double nearest to sign * (n / d) * 2^e, ties to even; n, d > 0.
RoundRatio(sign, n, d, e) ==
    Scaled(sign, n, d, e, Scale(n, d, MantBits - (BigBitLen(n) - BigBitLen(d))))

Sign(x) == IF x > 0 THEN 1 ELSE IF x < 0 THEN -1 ELSE 0

Abs(x) == IF x < 0 THEN -x ELSE x

\* float(num / den) for integers num and den > 0: the double nearest to the ratio
FloatOfRatio(num, den) ==
    IF num = 0 THEN FZero
    ELSE RoundRatio(Sign(num), BigOfNat(Abs(num)), BigOfNat(den), 0)

FDiv(a, b) ==
    IF a.sign = 0 THEN FZero
    ELSE RoundRatio(a.sign * b.sign, a.m, b.m, a.e - b.e)

FMul(a, b) ==
    IF a.sign = 0 \/ b.sign = 0 THEN FZero
    ELSE RoundRatio(a.sign * b.sign, BigMul(a.m, b.m), <<1>>, a.e + b.e)

\* sa * A + sb * B for naturals A and B that compare as c, times 2^e
AddAligned(sa, A, sb, B, c, e) ==
    IF sa # sb /\ c = 0 THEN FZero
    ELSE RoundRatio(IF sa = sb \/ c > 0 THEN sa ELSE sb,
                    IF sa = sb THEN BigAdd(A, B)
                    ELSE IF c > 0 THEN BigSub(A, B) ELSE BigSub(B, A),
                    <<1>>, e)

AlignTo(a, b, emin) ==
    AddAligned(a.sign, BigShl(a.m, a.e - emin), b.sign, BigShl(b.m, b.e - emin),
               BigCmp(BigShl(a.m, a.e - emin), BigShl(b.m, b.e - emin)), emin)

FAdd(a, b) ==
    IF a.sign = 0 THEN b
    ELSE IF b.sign = 0 THEN a
    ELSE AlignTo(a, b, IF a.e < b.e THEN a.e ELSE b.e)

\* -1, 0, 1 as |a| < |b|, |a| = |b|, |a| > |b|, for nonzero a and b
MagCmp(a, b) ==
    IF a.e > b.e THEN 1 ELSE IF a.e < b.e THEN -1 ELSE BigCmp(a.m, b.m)

\* a > b
FGt(a, b) ==
    IF a.sign # b.sign THEN a.sign > b.sign
    ELSE IF a.sign = 0 THEN FALSE
    ELSE IF a.sign > 0 THEN MagCmp(a, b) > 0
    ELSE MagCmp(a, b) < 0

(***************************************************************************)
(* The classification of show_budget_manager (main.py:349-360) and the     *)
(* budget alert of show_manual_entry (main.py:204-210), on doubles.        *)
(* spent and limit are the Decimal values read from the store, in cents;   *)
(* amount is the form's float, in mills.                                   *)
(***************************************************************************)
FloatOfDecimal(cents) == FloatOfRatio(cents, 100)

FloatOfInput(mills) == FloatOfRatio(mills, 1000)

Hundred == FloatOfRatio(100, 1)

Eighty == FloatOfRatio(80, 1)

PointEight == FloatOfRatio(8, 10)

\* percentage = (spent / limit * 100) if limit > 0 else 0
Percentage(spent, limit) ==
    IF limit > 0
    THEN FMul(FDiv(FloatOfDecimal(spent), FloatOfDecimal(limit)), Hundred)
    ELSE FZero

\* the colour coding of main.py:355-360
StatusOfPercentage(percentage) ==
    IF FGt(percentage, Hundred) THEN "over_budget"
    ELSE IF FGt(percentage, Eighty) THEN "warning"
    ELSE "on_track"

\* if spent > limit: "Budget exceeded"; elif spent > limit * 0.8: the warning
AlertStatus(spent, limit) ==
    IF FGt(spent, limit) THEN "over_budget"
    ELSE IF FGt(spent, FMul(limit, PointEight)) THEN "warning"
    ELSE "on_track"

\* spent = float(budget['spent']) + amount; limit = float(budget['monthly_limit'])
BudgetAlert(summarySpent, amount, monthlyLimit) ==
    AlertStatus(FAdd(FloatOfDecimal(summarySpent), FloatOfInput(amount)),
                FloatOfDecimal(monthlyLimit))

(***************************************************************************)
(* The inputs the model feeds the program, and its bounds.                 *)
(***************************************************************************)
\* rows that manual entry, the scanner and direct store calls may add
MaxUserRows == 2

\* months the clock may advance
MaxTicks == 1

\* the "Add Sample Data" batches the ledger can hold
MaxSampleBatches == 1

\* the values concurrent inserters take from the sequence behind transactions.id
MaxInserts == 3

StartDate == <<2024, 6>>

CATEGORIES ==
    {"Inventory Purchase", "Staff Welfare", "Marketing & Promotion", "Utilities",
     "Owner's Draw", "Executive Lunch", "Logistics", "IT & Software",
     "Business Travel", "Loan Repayment", "Store Supplies", "Shipping & Delivery",
     "Office Supplies", "Staff Uniforms", "Transportation", "Promotional Items",
     "Miscellaneous", "Store Maintenance", "Shopping", "Staff Training",
     "Taxes & Licenses", "Marketing"}

\* the choices of the category select boxes the model takes
CategoryInputs == {"Shopping", "Transportation"}

\* the category names that occur in the model, in ascending order (ORDER BY
\* b.category compares strings; TLA+ does not)
CategoryOrder == <<"Entertainment", "Food", "Shopping", "Transportation">>

CategoryRank(c) == CHOOSE i \in DOMAIN CategoryOrder : CategoryOrder[i] = c

VendorInputs == {"", "Cafe"}

\* the vendor field of the reviewed receipt form, pre-filled from the receipt:
\* empty, or one blank
ScannerVendors == {"", " "}

\* st.number_input(min_value=0.0): floats >= 0, written in mills
AmountInputs == {0, 280}

ScannerAmounts == {0, 4}

LimitInputs == {0, 350}

\* arguments a direct caller of the store passes
DirectAmounts == {-280}

DirectLimits == {-350, 355}

Outcomes == {"ok", "error"}

Year(d) == d[1]

Month(d) == d[2]

NextMonth(d) == IF Month(d) = 12 THEN <<Year(d) + 1, 1>> ELSE <<Year(d), Month(d) + 1>>

PrevMonth(d) == IF Month(d) = 1 THEN <<Year(d) - 1, 12>> ELSE <<Year(d), Month(d) - 1>>

PrevYear(d) == <<Year(d) - 1, Month(d)>>

\* the dates a date picker is set to: the first month, the month before it and
\* the same month a year before (all three for one category, the first for the rest)
DateInputs(category) ==
    IF category = "Shopping"
    THEN {StartDate, PrevMonth(StartDate), PrevYear(StartDate)}
    ELSE {StartDate}

MonthsSince(d0, d1) == (Year(d1) - Year(d0)) * 12 + (Month(d1) - Month(d0))

\* receipt_data.get('date', ''), a string written as its characters: no date,
\* a date in another notation, a date of the first month, a date of the month before
ExtractedDates ==
    {<<>>,
     <<"1", "5", "/", "0", "6", "/", "2", "0", "2", "4">>,
     <<"2", "0", "2", "4", "-", "0", "6", "-", "1", "5">>,
     <<"2", "0", "2", "4", "-", "0", "5", "-", "2", "0">>}

Digits == <<"0", "1", "2", "3", "4", "5", "6", "7", "8", "9">>

IsDigit(c) == \E i \in DOMAIN Digits : Digits[i] = c

DigitValue(c) == (CHOOSE i \in DOMAIN Digits : Digits[i] = c) - 1

RECURSIVE NumberOf(_)
NumberOf(text) ==
    IF text = <<>> THEN 0
    ELSE NumberOf(SubSeq(text, 1, Len(text) - 1)) * 10 + DigitValue(text[Len(text)])

AllDigits(text) == \A i \in DOMAIN text : IsDigit(text[i])

DaysIn(year, month) ==
    IF month = 2
    THEN IF year % 4 = 0 /\ (year % 100 # 0 \/ year % 400 = 0) THEN 29 ELSE 28
    ELSE IF month \in {4, 6, 9, 11} THEN 30 ELSE 31

\* the three fields of a text that matches %Y-%m-%d: four digits, one or two
\* digits of a month, one or two digits of a day of that month
DateFields(year, month, day) ==
    IF /\ Len(year) = 4 /\ AllDigits(year) /\ NumberOf(year) >= 1
       /\ Len(month) \in {1, 2} /\ AllDigits(month) /\ NumberOf(month) \in 1..12
       /\ Len(day) \in {1, 2} /\ AllDigits(day)
       /\ NumberOf(day) \in 1..DaysIn(NumberOf(year), NumberOf(month))
    THEN [ok |-> TRUE, date |-> <<NumberOf(year), NumberOf(month)>>]
    ELSE [ok |-> FALSE, date |-> <<>>]

SplitAt(text, i, j) ==
    DateFields(SubSeq(text, 1, i - 1), SubSeq(text, i + 1, j - 1),
               SubSeq(text, j + 1, Len(text)))

\* datetime.strptime(text, '%Y-%m-%d').date(): the date (its year and month), or
\* not ok where strptime raises
strptime(text) ==
    IF Cardinality({i \in DOMAIN text : text[i] = "-"}) = 2
    THEN SplitAt(text, CHOOSE i \in DOMAIN text :
                           text[i] = "-" /\ \E j \in DOMAIN text : j > i /\ text[j] = "-",
                       CHOOSE j \in DOMAIN text :
                           text[j] = "-" /\ \E i \in DOMAIN text : i < j /\ text[i] = "-")
    ELSE [ok |-> FALSE, date |-> <<>>]

\* what the receipt form shows for the date: try: default_date = strptime(...)
\* except: default_date = date.today(); the messages are those of main.py:259
ReviewForm(text, now) ==
    [default_date |-> IF strptime(text).ok THEN strptime(text).date ELSE now,
     messages |-> {"Receipt processed successfully!"}]

(***************************************************************************)
(* State.                                                                  *)
(*   ledger   the transactions table, in insertion order                   *)
(*   budgets  the budgets table, in insertion order                        *)
(*   today    CURRENT_DATE / date.today()                                  *)
(*   last     what the latest handler got from the store and showed:       *)
(*            call     the store call that decided it ("none": no call)    *)
(*            ok, id   what insert_transaction / upsert_budget returned    *)
(*            alert    the budget alert shown after a manual entry         *)
(*            category, limit   the arguments of a successful upsert       *)
(*            view     the Budget Status column as drawn                   *)
(*            rows     what get_transactions / get_budget_summary gave a   *)
(*                     caller that called it directly                      *)
(*            arg      the limit that caller passed to get_transactions,   *)
(*                     or the date text extracted from a receipt           *)
(*            form     the receipt form as drawn for review                *)
(*   lastSet  per category, the limit of its latest successful upsert      *)
(*            (mills; history, read by no operation)                       *)
(*   seen     the rows of the latest successful direct get_budget_summary  *)
(*            call, the date it ran on and whether it was a repeated call, *)
(*            forgotten as soon as a handler that inserts or upserts runs  *)
(*            (history, read by no operation)                              *)
(*   sessions per connection of a concurrent caller of upsert_budget, the  *)
(*            statement it has issued and not yet committed:               *)
(*            pc       "idle", "waiting" (issued) or "executed"            *)
(*            plan     what the statement did: "insert" or "update"        *)
(*            overlap  another connection had a statement on the same      *)
(*                     category in flight when this one was issued         *)
(***************************************************************************)
VARIABLES ledger, budgets, today, last, lastSet, seen, sessions

\* The connections of concurrent callers of insert_transaction:
\*   inserting  per connection, the INSERT it has executed and not yet committed
\*   id_seq     the last value taken from the sequence behind transactions.id
VARIABLES inserting, id_seq

inserts == <<inserting, id_seq>>

\* The process that serves the pages:
\*   _database_instance  the global of database.py (0: None, else the number
\*                       of the DatabaseManager it refers to)
\*   callers   per thread, where it stands in get_database
\*   history   what get_database has done so far: the instances created, the
\*             init_tables calls made, the instances returned, the result of
\*             the first test_connection (read by no operation)
VARIABLES _database_instance, callers, history

process == <<_database_instance, callers, history>>

vars == <<ledger, budgets, today, last, lastSet, seen, sessions, inserts, process>>

(***************************************************************************)
(* The store: the tables of init_tables and the statements of              *)
(* DatabaseManager.  A call's outcome is "ok" or "error": get_connection   *)
(* returned None, or an exception inside the with block rolled the         *)
(* transaction back; the two take the same return statement.               *)
(***************************************************************************)
\* DECIMAL(10,2): a numeric value is rounded to two places, ties away from zero
DecimalRound(mills) == Sign(mills) * ((Abs(mills) + 5) \div 10)

\* a sequence declared with MAXVALUE 4 CYCLE
nextval_cycle(L) == (Len(L) % 4) + 1

\* id SERIAL PRIMARY KEY: the next value of the sequence behind the column (the
\* values a rolled-back insert takes from the sequence are not kept apart)
nextval(L) == Len(L) + 1

\* an insert whose row stays when the statement fails: no rollback
insert_transaction_no_rollback(L, vendor, amount, category, transaction_date, source_type, outcome) ==
    [rows |-> Append(L, [id |-> nextval(L),
                         vendor |-> vendor,
                         amount |-> DecimalRound(amount),
                         category |-> category,
                         transaction_date |-> transaction_date,
                         source_type |-> source_type]),
     id |-> IF outcome = "ok" THEN nextval(L) ELSE 0]

\* an insert that first deletes the row of the same vendor, category and date
insert_transaction_replacing(L, vendor, amount, category, transaction_date, source_type, outcome) ==
    IF outcome = "ok"
    THEN [rows |-> Append(SelectSeq(L, LAMBDA t : ~(/\ t.vendor = vendor
                                                    /\ t.category = category
                                                    /\ t.transaction_date = transaction_date)),
                          [id |-> nextval(L),
                           vendor |-> vendor,
                           amount |-> DecimalRound(amount),
                           category |-> category,
                           transaction_date |-> transaction_date,
                           source_type |-> source_type]),
          id |-> nextval(L)]
    ELSE [rows |-> L, id |-> 0]

\* INSERT INTO transactions (...) VALUES (...) RETURNING id
\* [rows, id]: the table afterwards and the id returned (0: None)
insert_transaction(L, vendor, amount, category, transaction_date, source_type, outcome) ==
    IF outcome = "ok"
    THEN [rows |-> Append(L, [id |-> nextval(L),
                              vendor |-> vendor,
                              amount |-> DecimalRound(amount),
                              category |-> category,
                              transaction_date |-> transaction_date,
                              source_type |-> source_type]),
          id |-> nextval(L)]
    ELSE [rows |-> L, id |-> 0]

\* an upsert without the conflict clause and the unique key: a plain INSERT
upsert_budget_insert_only(B, category, monthly_limit, outcome) ==
    IF outcome = "ok"
    THEN [rows |-> Append(B, [category |-> category,
                              monthly_limit |-> DecimalRound(monthly_limit)]),
          ok |-> TRUE]
    ELSE [rows |-> B, ok |-> FALSE]

\* an upsert that adds to the limit: SET monthly_limit = budgets.monthly_limit + EXCLUDED.monthly_limit
upsert_budget_accumulate(B, category, monthly_limit, outcome) ==
    IF outcome = "ok"
    THEN IF \E i \in DOMAIN B : B[i].category = category
         THEN [rows |-> [i \in DOMAIN B |->
                            IF B[i].category = category
                            THEN [B[i] EXCEPT !.monthly_limit = @ + DecimalRound(monthly_limit)]
                            ELSE B[i]],
               ok |-> TRUE]
         ELSE [rows |-> Append(B, [category |-> category,
                                   monthly_limit |-> DecimalRound(monthly_limit)]),
               ok |-> TRUE]
    ELSE [rows |-> B, ok |-> FALSE]

\* an upsert whose update is not held to the conflicting row: every budget of
\* the user gets the new limit
upsert_budget_all_rows(B, category, monthly_limit, outcome) ==
    IF outcome = "ok"
    THEN IF \E i \in DOMAIN B : B[i].category = category
         THEN [rows |-> [i \in DOMAIN B |->
                            [B[i] EXCEPT !.monthly_limit = DecimalRound(monthly_limit)]],
               ok |-> TRUE]
         ELSE [rows |-> Append(B, [category |-> category,
                                   monthly_limit |-> DecimalRound(monthly_limit)]),
               ok |-> TRUE]
    ELSE [rows |-> B, ok |-> FALSE]

\* INSERT INTO budgets ... ON CONFLICT (user_id, category) DO UPDATE
\*   SET monthly_limit = EXCLUDED.monthly_limit
\* [rows, ok]: the table afterwards and the value returned
upsert_budget(B, category, monthly_limit, outcome) ==
    IF outcome = "ok"
    THEN IF \E i \in DOMAIN B : B[i].category = category
         THEN [rows |-> [i \in DOMAIN B |->
                            IF B[i].category = category
                            THEN [B[i] EXCEPT !.monthly_limit = DecimalRound(monthly_limit)]
                            ELSE B[i]],
               ok |-> TRUE]
         ELSE [rows |-> Append(B, [category |-> category,
                                   monthly_limit |-> DecimalRound(monthly_limit)]),
               ok |-> TRUE]
    ELSE [rows |-> B, ok |-> FALSE]

\* a join on the category and the month alone, without the year
JoinsBudget_month_only(b, t, now) ==
    /\ b.category = t.category
    /\ Month(t.transaction_date) = Month(now)

\* t joins b: ON b.category = t.category AND EXTRACT(MONTH ...) = ... AND EXTRACT(YEAR ...) = ...
JoinsBudget(b, t, now) ==
    /\ b.category = t.category
    /\ Month(t.transaction_date) = Month(now)
    /\ Year(t.transaction_date) = Year(now)

\* GROUP BY with the ORDER BY left out: the groups come in one order on a first
\* read and in another on a repeated one
RECURSIVE SortByCategory_unordered(_)
SortByCategory_unordered(rows) ==
    IF rows = {} THEN <<>>
    ELSE LET first == CHOOSE r \in rows : \A q \in rows :
                          IF seen.set
                          THEN CategoryRank(r.category) >= CategoryRank(q.category)
                          ELSE CategoryRank(r.category) <= CategoryRank(q.category)
         IN  <<first>> \o SortByCategory_unordered(rows \ {first})

RECURSIVE SortByCategory(_)
SortByCategory(rows) ==
    IF rows = {} THEN <<>>
    ELSE LET first == CHOOSE r \in rows : \A q \in rows :
                          \/ CategoryRank(r.category) < CategoryRank(q.category)
                          \/ /\ r.category = q.category
                             /\ r.monthly_limit <= q.monthly_limit
         IN  <<first>> \o SortByCategory(rows \ {first})

\* the summary with JOIN in place of LEFT JOIN: a budget no transaction joins
\* has no row
get_budget_summary_inner_join(B, L, now, outcome) ==
    IF outcome # "ok" THEN <<>>
    ELSE LET Joined(b) == {j \in DOMAIN L : JoinsBudget(b, L[j], now)}
             RECURSIVE SumJoined(_)
             SumJoined(js) ==
                 IF js = {} THEN 0
                 ELSE LET j == CHOOSE k \in js : TRUE
                      IN  L[j].amount + SumJoined(js \ {j})
         IN  SortByCategory({[category |-> B[i].category,
                              monthly_limit |-> B[i].monthly_limit,
                              spent |-> SumJoined(Joined(B[i]))] :
                                 i \in {k \in DOMAIN B : Joined(B[k]) # {}}})

\* SELECT b.category, b.monthly_limit, COALESCE(SUM(t.amount), 0) AS spent
\*   FROM budgets b LEFT JOIN transactions t ON ... GROUP BY b.category, b.monthly_limit
\*   ORDER BY b.category;  [] when the call fails
get_budget_summary(B, L, now, outcome) ==
    IF outcome # "ok" THEN <<>>
    ELSE LET groups == {<<B[i].category, B[i].monthly_limit>> : i \in DOMAIN B}
             Joined(g) == {p \in (DOMAIN B) \X (DOMAIN L) :
                              /\ B[p[1]].category = g[1]
                              /\ B[p[1]].monthly_limit = g[2]
                              /\ JoinsBudget(B[p[1]], L[p[2]], now)}
             RECURSIVE SumJoined(_)
             SumJoined(ps) ==
                 IF ps = {} THEN 0
                 ELSE LET p == CHOOSE q \in ps : TRUE
                      IN  L[p[2]].amount + SumJoined(ps \ {p})
         IN  SortByCategory({[category |-> g[1], monthly_limit |-> g[2],
                              spent |-> SumJoined(Joined(g))] : g \in groups})

\* limit=None of get_transactions(self, limit=None); an integer limit n is <<n>>
None == <<>>

\* the limits a caller passes: None (dashboard, sidebar), 0, 1 and 5 (quick stats)
LimitArgs == {None, <<0>>, <<1>>, <<5>>}

\* "if limit:" -- None and 0 are both false
Truthy(limit) == limit # None /\ limit[1] # 0

\* ORDER BY transaction_date DESC: every arrangement of the rows with the dates
\* non-increasing (the order among rows of equal date is left to the server)
RECURSIVE Arrangements(_, _)
Arrangements(L, js) ==
    IF js = {} THEN {<<>>}
    ELSE UNION {{<<L[j]>> \o r : r \in Arrangements(L, js \ {j})} :
                   j \in {k \in js : \A q \in js :
                              MonthsSince(L[q].transaction_date,
                                          L[k].transaction_date) >= 0}}

OrderByDateDesc(L) == Arrangements(L, DOMAIN L)

\* query += f" LIMIT {limit}", appended only when limit is true
LimitClause(r, limit) ==
    IF Truthy(limit)
    THEN SubSeq(r, 1, IF limit[1] < Len(r) THEN limit[1] ELSE Len(r))
    ELSE r

\* the results get_transactions can return: [] when the connection or the query
\* fails (a negative LIMIT is rejected by the server), else the ordered rows
get_transactions(L, limit, outcome) ==
    IF outcome # "ok" \/ (Truthy(limit) /\ limit[1] < 0)
    THEN {<<>>}
    ELSE {LimitClause(r, limit) : r \in OrderByDateDesc(L)}

(***************************************************************************)
(* The sample rows of show_dashboard (main.py:97-102), amounts in mills.   *)
(***************************************************************************)
SampleTransactions ==
    <<[vendor |-> "Starbucks", amount |-> 12500, category |-> "Food"],
      [vendor |-> "Uber", amount |-> 23750, category |-> "Transportation"],
      [vendor |-> "Amazon", amount |-> 45990, category |-> "Shopping"],
      [vendor |-> "Netflix", amount |-> 15990, category |-> "Entertainment"]>>

\* what each of the four inserts of one click comes to
SampleOutcomes ==
    {<<"ok", "ok", "ok", "ok">>,
     <<"error", "error", "error", "error">>}

(***************************************************************************)
(* The float results the handlers use, tabulated once over the values the  *)
(* bounded inputs can produce (a double operation on limb sequences is     *)
(* costly to evaluate in every state).                                     *)
(***************************************************************************)
StoredAmounts ==
    {DecimalRound(a) : a \in AmountInputs \cup ScannerAmounts \cup DirectAmounts}

RECURSIVE UserSums(_)
UserSums(n) ==
    IF n = 0 THEN {0}
    ELSE {s + a : s \in UserSums(n - 1), a \in StoredAmounts \cup {0}}

SampleSums ==
    {0} \cup {DecimalRound(SampleTransactions[i].amount) : i \in DOMAIN SampleTransactions}

SpentValues == {u + b : u \in UserSums(MaxUserRows), b \in SampleSums}

LimitValues == {DecimalRound(l) : l \in LimitInputs \cup DirectLimits}

PercentageTable ==
    {<<p, Percentage(p[1], p[2])>> : p \in SpentValues \X LimitValues}

AlertTable ==
    {<<p, BudgetAlert(p[1], p[2], p[3])>> :
        p \in SpentValues \X {a \in AmountInputs : a > 0} \X LimitValues}

PercentageOf(spent, limit) ==
    IF \E t \in PercentageTable : t[1] = <<spent, limit>>
    THEN (CHOOSE t \in PercentageTable : t[1] = <<spent, limit>>)[2]
    ELSE Percentage(spent, limit)

AlertOf(spent, amount, limit) ==
    IF \E t \in AlertTable : t[1] = <<spent, amount, limit>>
    THEN (CHOOSE t \in AlertTable : t[1] = <<spent, amount, limit>>)[2]
    ELSE BudgetAlert(spent, amount, limit)

NoResult ==
    [call |-> "none", ok |-> TRUE, id |-> 0, alert |-> "none",
     category |-> "", limit |-> 0, view |-> <<>>, rows |-> <<>>, arg |-> <<>>,
     form |-> <<>>]

NoSeen == [set |-> FALSE, again |-> FALSE, at |-> StartDate, rows |-> <<>>]

\* the connections of the concurrent callers
Sessions == {1, 2}

Idle ==
    [pc |-> "idle", plan |-> "none", category |-> "", monthly_limit |-> 0,
     overlap |-> FALSE]

\* a row not there
NoRow ==
    [id |-> 0, vendor |-> "", amount |-> 0, category |-> "",
     transaction_date |-> StartDate, source_type |-> ""]

NotInserting == [pc |-> "idle", row |-> NoRow]

\* the script threads of the process, one per browser session
Threads == {1, 2}

NotCalling == [pc |-> "idle", saw |-> 0]

NoHistory == [created |-> 0, init_calls |-> 0, returned |-> {}, first_test |-> "none"]

Init ==
    /\ ledger = <<>>
    /\ budgets = <<>>
    /\ today = StartDate
    /\ last = NoResult
    /\ lastSet = [c \in {} |-> 0]
    /\ seen = NoSeen
    /\ sessions = [s \in Sessions |-> Idle]
    /\ inserting = [s \in Sessions |-> NotInserting]
    /\ id_seq = 0
    /\ _database_instance = 0
    /\ callers = [t \in Threads |-> NotCalling]
    /\ history = NoHistory

UserRows(L) == Cardinality({j \in DOMAIN L : L[j].source_type # "sample_data"})

InsertResult(ins, alert) ==
    IF ins.id # 0
    THEN [NoResult EXCEPT !.call = "insert_transaction", !.id = ins.id, !.alert = alert]
    ELSE [NoResult EXCEPT !.call = "insert_transaction", !.ok = FALSE]

\* the budget alert of main.py:201-211, for the summary the handler read
AlertFor(summary, category, amount) ==
    IF \E i \in DOMAIN summary : summary[i].category = category
    THEN LET i == CHOOSE k \in DOMAIN summary :
                      /\ summary[k].category = category
                      /\ \A q \in 1..(k - 1) : summary[q].category # category
         IN  AlertOf(summary[i].spent, amount, summary[i].monthly_limit)
    ELSE "none"

\* show_manual_entry, the form submitted (main.py:185-215)
show_manual_entry(vendor, amount, category, transaction_date, o1, o2) ==
    IF vendor # "" /\ amount > 0
    THEN LET ins == insert_transaction(ledger, vendor, amount, category,
                                       transaction_date, "manual_entry", o1)
         IN  /\ ledger' = ins.rows
             /\ last' = InsertResult(ins,
                            AlertFor(get_budget_summary(budgets, ins.rows, today, o2),
                                     category, amount))
    ELSE /\ ledger' = ledger
         /\ last' = NoResult

ManualEntry ==
    /\ UserRows(ledger) < MaxUserRows
    /\ \E vendor \in VendorInputs, amount \in AmountInputs, category \in CategoryInputs,
          o1 \in Outcomes, o2 \in Outcomes :
          \E transaction_date \in DateInputs(category) :
             show_manual_entry(vendor, amount, category, transaction_date, o1, o2)
    /\ seen' = NoSeen
    /\ UNCHANGED <<budgets, today, lastSet, sessions, inserts, process>>

\* show_scanner, the reviewed form submitted (main.py:293-311)
show_scanner(vendor, amount, category, transaction_date, o1) ==
    IF vendor # "" /\ amount > 0
    THEN LET ins == insert_transaction(ledger, vendor, amount, category,
                                       transaction_date, "receipt_scan", o1)
         IN  /\ ledger' = ins.rows
             /\ last' = InsertResult(ins, "none")
    ELSE /\ ledger' = ledger
         /\ last' = NoResult

\* show_scanner with a receipt uploaded and processed, the form drawn for
\* review (main.py:258-291)
ScannerReview ==
    /\ \E text \in ExtractedDates :
          last' = [NoResult EXCEPT !.call = "show_scanner", !.arg = text,
                                   !.form = ReviewForm(text, today)]
    /\ UNCHANGED <<ledger, budgets, today, lastSet, seen, sessions, inserts, process>>

ScannerSave ==
    /\ UserRows(ledger) < MaxUserRows
    /\ \E vendor \in ScannerVendors, amount \in ScannerAmounts, o1 \in Outcomes :
          show_scanner(vendor, amount, "Transportation", StartDate, o1)
    /\ seen' = NoSeen
    /\ UNCHANGED <<budgets, today, lastSet, sessions, inserts, process>>

\* for vendor, amount, category, trans_date, desc in sample_transactions:
\*     db.insert_transaction(vendor, amount, category, trans_date, desc, "sample_data")
RECURSIVE InsertSamples(_, _, _, _)
InsertSamples(L, i, now, outs) ==
    IF i > Len(SampleTransactions) THEN L
    ELSE InsertSamples(insert_transaction(L, SampleTransactions[i].vendor,
                                          SampleTransactions[i].amount,
                                          SampleTransactions[i].category,
                                          now, "sample_data", outs[i]).rows,
                       i + 1, now, outs)

SampleBatches(L) ==
    Cardinality({j \in DOMAIN L : /\ L[j].source_type = "sample_data"
                                  /\ L[j].vendor = SampleTransactions[1].vendor})

\* show_dashboard with "Add Sample Data" clicked (main.py:90-110): the button is
\* there when get_transactions returned nothing, from an empty table or from a
\* failed read
AddSampleData ==
    /\ SampleBatches(ledger) < MaxSampleBatches
    /\ \E o0 \in Outcomes : <<>> \in get_transactions(ledger, None, o0)
    /\ \E outs \in SampleOutcomes : ledger' = InsertSamples(ledger, 1, today, outs)
    /\ last' = [NoResult EXCEPT !.call = "show_dashboard"]
    /\ seen' = NoSeen
    /\ UNCHANGED <<budgets, today, lastSet, sessions, inserts, process>>

\* show_dashboard drawn with no button clicked (main.py:83-163): the
\* transactions are read and, when there are some, charted with the summary
DashboardPage ==
    /\ \E o0 \in Outcomes, o1 \in Outcomes :
          \E transactions \in get_transactions(ledger, None, o0) :
             LET budget_summary == IF transactions = <<>> THEN <<>>
                                   ELSE get_budget_summary(budgets, ledger, today, o1)
             IN  last' = [NoResult EXCEPT !.call = "show_dashboard"]
    /\ UNCHANGED <<ledger, budgets, today, lastSet, seen, sessions, inserts, process>>

\* show_tax_generator (trial.py:225-271): the transactions are read and mapped
\* into the return offered for download
TaxReportPage ==
    /\ \E o0 \in Outcomes :
          \E transactions \in get_transactions(ledger, None, o0) :
             last' = [NoResult EXCEPT !.call = "show_tax_generator"]
    /\ UNCHANGED <<ledger, budgets, today, lastSet, seen, sessions, inserts, process>>

\* the Budget Status column of show_budget_manager (main.py:341-368)
BudgetStatusView(summary) ==
    [i \in DOMAIN summary |->
        LET percentage == PercentageOf(summary[i].spent, summary[i].monthly_limit)
        IN  [category |-> summary[i].category,
             monthly_limit |-> summary[i].monthly_limit,
             spent |-> summary[i].spent,
             percentage |-> percentage,
             status |-> StatusOfPercentage(percentage)]]

RecordUpsert(category, monthly_limit) ==
    [c \in DOMAIN lastSet \cup {category} |->
        IF c = category THEN monthly_limit ELSE lastSet[c]]

UpsertResult(up, category, monthly_limit, view) ==
    IF up.ok
    THEN [NoResult EXCEPT !.call = "upsert_budget", !.category = category,
                          !.limit = monthly_limit, !.view = view]
    ELSE [NoResult EXCEPT !.call = "upsert_budget", !.ok = FALSE, !.view = view]

\* show_budget_manager with "Save Budget" submitted (main.py:333-368): the page
\* is drawn again after a saved budget, and to its end after a failed one
SaveBudget ==
    /\ \E category \in CategoryInputs, monthly_limit \in LimitInputs,
          o1 \in Outcomes, o2 \in Outcomes :
          LET up == upsert_budget(budgets, category, monthly_limit, o1)
          IN  /\ budgets' = up.rows
              /\ lastSet' = IF up.ok THEN RecordUpsert(category, monthly_limit) ELSE lastSet
              /\ last' = UpsertResult(up, category, monthly_limit,
                            BudgetStatusView(get_budget_summary(up.rows, ledger, today, o2)))
    /\ seen' = NoSeen
    /\ UNCHANGED <<ledger, today, sessions, inserts, process>>

\* show_budget_manager drawn with nothing submitted
BudgetManagerPage ==
    /\ \E o1 \in Outcomes :
          last' = [NoResult EXCEPT
                     !.call = "get_budget_summary",
                     !.view = BudgetStatusView(get_budget_summary(budgets, ledger, today, o1))]
    /\ UNCHANGED <<ledger, budgets, today, lastSet, seen, sessions, inserts, process>>

\* db.insert_transaction called by any other caller
InsertTransactionCall ==
    /\ UserRows(ledger) < MaxUserRows
    /\ \E amount \in DirectAmounts, o1 \in Outcomes :
          LET ins == insert_transaction(ledger, "Cafe", amount, "Shopping", StartDate,
                                        "receipt_scan", o1)
          IN  /\ ledger' = ins.rows
              /\ last' = InsertResult(ins, "none")
    /\ seen' = NoSeen
    /\ UNCHANGED <<budgets, today, lastSet, sessions, inserts, process>>

\* db.upsert_budget called by any other caller
UpsertBudgetCall ==
    /\ \E monthly_limit \in DirectLimits, o1 \in Outcomes :
          LET up == upsert_budget(budgets, "Shopping", monthly_limit, o1)
          IN  /\ budgets' = up.rows
              /\ lastSet' = IF up.ok THEN RecordUpsert("Shopping", monthly_limit) ELSE lastSet
              /\ last' = UpsertResult(up, "Shopping", monthly_limit, <<>>)
    /\ seen' = NoSeen
    /\ UNCHANGED <<ledger, today, sessions, inserts, process>>

\* db.get_transactions(limit) called by any caller
GetTransactionsCall ==
    /\ \E limit \in LimitArgs, o1 \in Outcomes :
          \E transactions \in get_transactions(ledger, limit, o1) :
             last' = [NoResult EXCEPT !.call = "get_transactions", !.ok = (o1 = "ok"),
                                      !.rows = transactions, !.arg = limit]
    /\ UNCHANGED <<ledger, budgets, today, lastSet, seen, sessions, inserts, process>>

\* db.get_budget_summary() called by any caller
GetBudgetSummaryCall ==
    /\ \E o1 \in Outcomes :
          LET budget_summary == get_budget_summary(budgets, ledger, today, o1)
          IN  /\ last' = [NoResult EXCEPT !.call = "get_budget_summary",
                                          !.ok = (o1 = "ok"), !.rows = budget_summary]
              /\ seen' = IF o1 = "ok"
                         THEN [set |-> TRUE, again |-> seen.set, at |-> today,
                               rows |-> budget_summary]
                         ELSE seen
    /\ UNCHANGED <<ledger, budgets, today, lastSet, sessions, inserts, process>>

\* no unique key on (user_id, category): no statement waits for another
Conflicts_none(S, s, category) == FALSE

\* a statement on the key (user_id, category) that another connection has
\* executed and not yet committed: INSERT ... ON CONFLICT waits for it
Conflicts(S, s, category) ==
    \E t \in Sessions \ {s} : S[t].pc = "executed" /\ S[t].category = category

\* the arbiter of ON CONFLICT (user_id, category): the row is inserted, or the
\* row already there is updated
upsert_plan(B, category) ==
    IF \E i \in DOMAIN B : B[i].category = category THEN "update" ELSE "insert"

\* the table once the executed statement is committed
commit_plan(B, plan, category, monthly_limit) ==
    IF plan = "insert"
    THEN Append(B, [category |-> category,
                    monthly_limit |-> DecimalRound(monthly_limit)])
    ELSE [i \in DOMAIN B |->
             IF B[i].category = category
             THEN [B[i] EXCEPT !.monthly_limit = DecimalRound(monthly_limit)]
             ELSE B[i]]

\* upsert_budget on the connection s, up to cur.execute being called
\* (database.py:219-225); False at once when there is no connection
BeginUpsert(s) ==
    /\ sessions[s].pc = "idle"
    /\ \E category \in CategoryInputs, monthly_limit \in LimitInputs, o1 \in Outcomes :
          IF o1 = "ok"
          THEN /\ sessions' = [sessions EXCEPT ![s] =
                      [pc |-> "waiting", plan |-> "none", category |-> category,
                       monthly_limit |-> monthly_limit,
                       overlap |-> \E t \in Sessions \ {s} :
                                      /\ sessions[t].pc # "idle"
                                      /\ sessions[t].category = category]]
               /\ last' = NoResult
          ELSE /\ sessions' = sessions
               /\ last' = UpsertResult([ok |-> FALSE], category, monthly_limit, <<>>)
    /\ UNCHANGED <<ledger, budgets, today, lastSet, seen, inserts, process>>

\* the statement runs on the server (database.py:225-230), once no other
\* connection holds the key
ExecuteUpsert(s) ==
    /\ sessions[s].pc = "waiting"
    /\ ~Conflicts(sessions, s, sessions[s].category)
    /\ sessions' = [sessions EXCEPT ![s].pc = "executed",
                                    ![s].plan = upsert_plan(budgets, sessions[s].category)]
    /\ last' = NoResult
    /\ UNCHANGED <<ledger, budgets, today, lastSet, seen, inserts, process>>

\* conn.commit() and the return (database.py:231-241); a failed commit rolls
\* the statement back
CommitUpsert(s) ==
    /\ sessions[s].pc = "executed"
    /\ \E o1 \in Outcomes :
          IF o1 = "ok"
          THEN /\ budgets' = commit_plan(budgets, sessions[s].plan, sessions[s].category,
                                         sessions[s].monthly_limit)
               /\ lastSet' = RecordUpsert(sessions[s].category, sessions[s].monthly_limit)
               /\ last' = UpsertResult([ok |-> TRUE], sessions[s].category,
                                       sessions[s].monthly_limit, <<>>)
          ELSE /\ UNCHANGED <<budgets, lastSet>>
               /\ last' = UpsertResult([ok |-> FALSE], sessions[s].category,
                                       sessions[s].monthly_limit, <<>>)
    /\ sessions' = [sessions EXCEPT ![s] = Idle]
    /\ seen' = NoSeen
    /\ UNCHANGED <<ledger, today, inserts, process>>

\* a table indexed by id: the row is written at the position of its id and
\* what stood from there on is gone
commit_insert_at_id(L, row) ==
    SubSeq(L, 1, IF row.id - 1 < Len(L) THEN row.id - 1 ELSE Len(L)) \o <<row>>

\* the table once the executed INSERT is committed: the rows other
\* connections have committed, and the new row
commit_insert(L, row) == Append(L, row)

\* the dates of the rows concurrent callers insert
ConcurrentDates == {StartDate, PrevMonth(StartDate)}

\* insert_transaction on the connection s up to the fetch of the returned id
\* (database.py:131-144): the row takes the next value of the sequence; None at
\* once when there is no connection
ExecuteInsert(s) ==
    /\ inserting[s].pc = "idle"
    /\ id_seq < MaxInserts
    /\ \E transaction_date \in ConcurrentDates, o1 \in Outcomes :
          IF o1 = "ok"
          THEN /\ id_seq' = id_seq + 1
               /\ inserting' = [inserting EXCEPT ![s] =
                      [pc |-> "executed",
                       row |-> [id |-> id_seq + 1,
                                vendor |-> "Cafe",
                                amount |-> DecimalRound(280),
                                category |-> "Shopping",
                                transaction_date |-> transaction_date,
                                source_type |-> "manual_entry"]]]
               /\ last' = NoResult
          ELSE /\ UNCHANGED <<inserting, id_seq>>
               /\ last' = InsertResult([id |-> 0], "none")
    /\ UNCHANGED <<ledger, budgets, today, lastSet, seen, sessions, process>>

\* conn.commit() and the return of the id (database.py:145-155); a failed
\* commit rolls the row back and the value taken from the sequence is not reused
CommitInsert(s) ==
    /\ inserting[s].pc = "executed"
    /\ \E o1 \in Outcomes :
          IF o1 = "ok"
          THEN /\ ledger' = commit_insert(ledger, inserting[s].row)
               /\ last' = InsertResult([id |-> inserting[s].row.id], "none")
          ELSE /\ ledger' = ledger
               /\ last' = InsertResult([id |-> 0], "none")
    /\ inserting' = [inserting EXCEPT ![s] = NotInserting]
    /\ seen' = NoSeen
    /\ UNCHANGED <<budgets, today, lastSet, sessions, id_seq, process>>

\* get_database (database.py:246-253), a thread at a time and a step for each
\* read or write of the global: "if _database_instance is None"
GetDatabaseCheck(t) ==
    /\ callers[t].pc = "idle"
    /\ callers' = [callers EXCEPT ![t] =
                      [pc |-> IF _database_instance = 0 THEN "create" ELSE "return",
                       saw |-> _database_instance]]
    /\ last' = NoResult
    /\ UNCHANGED <<ledger, budgets, today, lastSet, seen, sessions, inserts,
                   _database_instance, history>>

\* _database_instance = DatabaseManager()
GetDatabaseCreate(t) ==
    /\ callers[t].pc = "create"
    /\ _database_instance' = history.created + 1
    /\ history' = [history EXCEPT !.created = @ + 1]
    /\ callers' = [callers EXCEPT ![t].pc = "test"]
    /\ last' = NoResult
    /\ UNCHANGED <<ledger, budgets, today, lastSet, seen, sessions, inserts>>

\* if _database_instance.test_connection(): the store is reachable or not
GetDatabaseTest(t) ==
    /\ callers[t].pc = "test"
    /\ \E o1 \in Outcomes :
          /\ callers' = [callers EXCEPT ![t].pc = IF o1 = "ok" THEN "init" ELSE "return"]
          /\ history' = [history EXCEPT
                            !.first_test = IF @ = "none" THEN o1 ELSE @]
    /\ last' = NoResult
    /\ UNCHANGED <<ledger, budgets, today, lastSet, seen, sessions, inserts,
                   _database_instance>>

\* _database_instance.init_tables(): CREATE TABLE IF NOT EXISTS leaves the
\* rows of tables that are there
GetDatabaseInit(t) ==
    /\ callers[t].pc = "init"
    /\ history' = [history EXCEPT !.init_calls = @ + 1]
    /\ callers' = [callers EXCEPT ![t].pc = "return"]
    /\ last' = NoResult
    /\ UNCHANGED <<ledger, budgets, today, lastSet, seen, sessions, inserts,
                   _database_instance>>

\* return _database_instance
GetDatabaseReturn(t) ==
    /\ callers[t].pc = "return"
    /\ history' = [history EXCEPT !.returned = @ \cup {_database_instance}]
    /\ callers' = [callers EXCEPT ![t] = NotCalling]
    /\ last' = NoResult
    /\ UNCHANGED <<ledger, budgets, today, lastSet, seen, sessions, inserts,
                   _database_instance>>

\* the calendar month ends
Tick ==
    /\ MonthsSince(StartDate, today) < MaxTicks
    /\ today' = NextMonth(today)
    /\ last' = NoResult
    /\ UNCHANGED <<ledger, budgets, lastSet, seen, sessions, inserts, process>>

Next ==
    \/ ManualEntry
    \/ ScannerSave
    \/ AddSampleData
    \/ SaveBudget
    \/ BudgetManagerPage
    \/ InsertTransactionCall
    \/ UpsertBudgetCall
    \/ Tick

Spec == Init /\ [][Next]_vars

\* the callers of the two read operations, with the writes and the calendar
NextReads ==
    \/ ManualEntry
    \/ SaveBudget
    \/ GetTransactionsCall
    \/ GetBudgetSummaryCall
    \/ Tick

SpecReads == Init /\ [][NextReads]_vars

\* the dashboard and the tax report, with the entry form and the calendar
NextPages ==
    \/ ManualEntry
    \/ ScannerReview
    \/ ScannerSave
    \/ AddSampleData
    \/ DashboardPage
    \/ TaxReportPage
    \/ Tick

SpecPages == Init /\ [][NextPages]_vars

\* upsert_budget called on several connections at once
NextConcurrent ==
    \/ \E s \in Sessions : BeginUpsert(s)
    \/ \E s \in Sessions : ExecuteUpsert(s)
    \/ \E s \in Sessions : CommitUpsert(s)

SpecConcurrent == Init /\ [][NextConcurrent]_vars

\* insert_transaction called on several connections at once, with a budget
\* saved and the summary read
NextInserts ==
    \/ \E s \in Sessions : ExecuteInsert(s)
    \/ \E s \in Sessions : CommitInsert(s)
    \/ UpsertBudgetCall
    \/ GetBudgetSummaryCall

SpecInserts == Init /\ [][NextInserts]_vars

\* the page handlers of the script threads calling get_database
NextProcess ==
    \/ \E t \in Threads : GetDatabaseCheck(t)
    \/ \E t \in Threads : GetDatabaseCreate(t)
    \/ \E t \in Threads : GetDatabaseTest(t)
    \/ \E t \in Threads : GetDatabaseInit(t)
    \/ \E t \in Threads : GetDatabaseReturn(t)

SpecProcess == Init /\ [][NextProcess]_vars

(***************************************************************************)
(* Properties.  Every action sets last, so in every state last tells what  *)
(* the latest handler returned and showed and the tables are as that       *)
(* handler left them.                                                      *)
(***************************************************************************)
\* what get_budget_summary returns in this state when the call succeeds
Summary == get_budget_summary(budgets, ledger, today, "ok")

\* a manual entry has just been committed and its budget alert shown
AlertShown == last.call = "insert_transaction" /\ last.id # 0 /\ last.alert # "none"

RECURSIVE SumAmounts(_, _)
SumAmounts(L, js) ==
    IF js = {} THEN 0
    ELSE LET j == CHOOSE k \in js : TRUE
         IN  L[j].amount + SumAmounts(L, js \ {j})

\* the ledger rows of a category dated in the month and year of today
RowsOfMonth(category) ==
    {j \in DOMAIN ledger :
        /\ ledger[j].category = category
        /\ Month(ledger[j].transaction_date) = Month(today)
        /\ Year(ledger[j].transaction_date) = Year(today)}

\* the classification by exact arithmetic on cents: over 100 %, over 80 %, else
ExactStatus(spent, limit) ==
    IF spent * 100 > 100 * limit THEN "over_budget"
    ELSE IF spent * 100 > 80 * limit THEN "warning"
    ELSE "on_track"

\* C1: the budget alert shown right after a committed manual entry is the status
\* the summary reports for the entry's category at that instant, the entry
\* counted once and only when dated in the current month.
C1_AlertMatchesSummary ==
    AlertShown =>
        \A i \in DOMAIN Summary :
            Summary[i].category = ledger[last.id].category =>
                last.alert = StatusOfPercentage(PercentageOf(Summary[i].spent,
                                                             Summary[i].monthly_limit))

\* C2: the spent value the summary reports for a budgeted category is the sum of
\* the amounts of the ledger rows of that category dated in the current month and
\* year; rows of another category, month or year add nothing.
C2_SpentIsMonthlySum ==
    \A i \in DOMAIN Summary :
        Summary[i].spent = SumAmounts(ledger, RowsOfMonth(Summary[i].category))

\* a budgeted category with spending this month, a row of another month or year
\* and, beside them, a row of another category this month
C2_Witness ==
    \E i \in DOMAIN Summary :
        /\ Summary[i].spent > 0
        /\ \E j \in DOMAIN ledger :
              /\ ledger[j].category = Summary[i].category
              /\ ledger[j].amount > 0
              /\ j \notin RowsOfMonth(Summary[i].category)
        /\ \E j \in DOMAIN ledger :
              /\ ledger[j].category # Summary[i].category
              /\ ledger[j].transaction_date = today

\* C3: the budgets table holds at most one row per category, in every state.
C3_OneRowPerCategory ==
    \A i, j \in DOMAIN budgets : budgets[i].category = budgets[j].category => i = j

\* the category set first has just been set again, another one set in between
C3_Witness ==
    /\ Len(budgets) = 2
    /\ last.call = "upsert_budget" /\ last.ok
    /\ last.category = budgets[1].category

\* the row of every category ever set holds the limit of its latest successful
\* upsert, rounded to cents
LimitIsLastUpsertRounded ==
    \A c \in DOMAIN lastSet :
        /\ \E i \in DOMAIN budgets : budgets[i].category = c
        /\ \A i \in DOMAIN budgets :
              budgets[i].category = c => budgets[i].monthly_limit = DecimalRound(lastSet[c])

\* a successful upsert that repeats the one before it changes no row
RepeatChangesNothing ==
    (/\ last.call = "upsert_budget" /\ last.ok
     /\ last'.call = "upsert_budget" /\ last'.ok
     /\ last'.category = last.category /\ last'.limit = last.limit)
        => budgets' = budgets

\* C4 (amended): a successful upsert replaces the limit: the category's row holds
\* the limit of its latest successful upsert rounded to two decimal places, never
\* a sum of old and new, and repeating the upsert changes nothing.
C4_UpsertReplacesRounded == []LimitIsLastUpsertRounded /\ [][RepeatChangesNothing]_vars

\* a limit of 0.355 has just replaced an earlier limit of the category set first
C4_Witness ==
    /\ Len(budgets) = 2
    /\ last.call = "upsert_budget" /\ last.ok
    /\ last.category = budgets[1].category
    /\ last.limit = 355
    /\ budgets[1].monthly_limit = 36

\* C4 as stated: the stored limit of a category equals the value of its latest
\* successful upsert.
C4_LimitIsLastUpsert ==
    \A c \in DOMAIN lastSet :
        \A i \in DOMAIN budgets :
            budgets[i].category = c => budgets[i].monthly_limit * 10 = lastSet[c]

\* C5: for a limit above zero the status shown is over_budget when spent / limit
\* is above 100 %, else warning when above 80 %, else on_track: exactly 80 % is
\* on_track and exactly 100 % is warning.
C5_StatusByPercentage ==
    \A i \in DOMAIN last.view :
        last.view[i].monthly_limit > 0 =>
            last.view[i].status = ExactStatus(last.view[i].spent, last.view[i].monthly_limit)

\* C6: for a category whose limit is 0 the summary shows percentage 0 and on_track,
\* and the alert after a manual entry is on_track too.
C6_ZeroLimitOnTrack ==
    /\ \A i \in DOMAIN last.view :
          last.view[i].monthly_limit = 0 =>
              last.view[i].percentage = FZero /\ last.view[i].status = "on_track"
    /\ AlertShown =>
          \A i \in DOMAIN budgets :
              (budgets[i].category = ledger[last.id].category /\ budgets[i].monthly_limit = 0)
                  => last.alert = "on_track"

\* C7: every ledger row, whichever handler wrote it, has a category of CATEGORIES.
C7_CategoriesConfigured ==
    \A j \in DOMAIN ledger : ledger[j].category \in CATEGORIES

\* C8: every ledger row has an amount above zero.
C8_AmountsPositive ==
    \A j \in DOMAIN ledger : ledger[j].amount > 0

\* C9: every stored monthly_limit is at least zero.
C9_LimitsNonNegative ==
    \A i \in DOMAIN budgets : budgets[i].monthly_limit >= 0

\* an insert that returned an id added exactly the row of that id; one that
\* returned None added nothing; neither touched the budgets
InsertAtomic ==
    last'.call = "insert_transaction" =>
        /\ budgets' = budgets
        /\ IF last'.id # 0
           THEN /\ Len(ledger') = Len(ledger) + 1
                /\ SubSeq(ledger', 1, Len(ledger)) = ledger
                /\ last'.id = Len(ledger')
                /\ ledger'[last'.id].id = last'.id
           ELSE ledger' = ledger

\* an upsert that returned False changed no row; neither kind touched the ledger
UpsertAtomic ==
    last'.call = "upsert_budget" =>
        /\ ledger' = ledger
        /\ ~last'.ok => budgets' = budgets

\* C10 (amended): a mutation succeeds wholly or changes nothing: insert returns an
\* id exactly when one row of that id was added and None only when none was;
\* upsert returns True only when the category's row holds the new limit rounded
\* to two decimal places, and False only when no budget row changed.
C10_MutationsAtomicRounded ==
    [][/\ InsertAtomic
       /\ UpsertAtomic
       /\ (last'.call = "upsert_budget" /\ last'.ok) =>
             \E i \in DOMAIN budgets' :
                 /\ budgets'[i].category = last'.category
                 /\ budgets'[i].monthly_limit = DecimalRound(last'.limit)]_vars

\* an insert has just failed on a ledger that holds rows, budgets set
C10_Witness ==
    /\ last.call = "insert_transaction" /\ ~last.ok
    /\ ledger # <<>>
    /\ budgets # <<>>

\* C10 as stated: ... upsert returns True only when the category's row holds the
\* new limit.
C10_MutationsAtomic ==
    [][/\ InsertAtomic
       /\ UpsertAtomic
       /\ (last'.call = "upsert_budget" /\ last'.ok) =>
             \E i \in DOMAIN budgets' :
                 /\ budgets'[i].category = last'.category
                 /\ budgets'[i].monthly_limit * 10 = last'.limit]_vars

\* what each read gives its caller when the table it reads is empty
EmptyStoreResult(call) ==
    IF call = "get_transactions"
    THEN CHOOSE r \in get_transactions(<<>>, None, "ok") : TRUE
    ELSE get_budget_summary(<<>>, <<>>, today, "ok")

\* C11: a read (get_transactions, get_budget_summary) whose connection or query
\* failed gives its caller a result that differs from the one it gives for a
\* reachable store that holds no data: a failure is never the empty collection alone.
C11_FailureDistinguishable ==
    (last.call \in {"get_transactions", "get_budget_summary"} /\ ~last.ok)
        => last.rows # EmptyStoreResult(last.call)

\* C12: the dashboard and reporting paths only read: no action on the dashboard
\* or on the tax-report page, and no call of get_transactions or
\* get_budget_summary, changes the transactions or the budgets table.
C12_ReportingReadsOnly ==
    [][last'.call \in {"show_dashboard", "show_tax_generator",
                       "get_transactions", "get_budget_summary"}
          => (ledger' = ledger /\ budgets' = budgets)]_vars

\* a successful direct call of get_budget_summary follows an earlier one, with
\* no handler that inserts or upserts in between
SummaryCalledAgain ==
    /\ seen.set
    /\ last'.call = "get_budget_summary" /\ last'.ok
    /\ last'.view = <<>>

C14_SummaryPerBudget ==
    /\ \A i \in DOMAIN budgets :
          Cardinality({k \in DOMAIN Summary :
                          Summary[k].category = budgets[i].category}) = 1
    /\ \A k \in DOMAIN Summary :
          \E i \in DOMAIN budgets : budgets[i].category = Summary[k].category
    /\ \A k \in DOMAIN Summary :
          k < Len(Summary) =>
              CategoryRank(Summary[k].category) < CategoryRank(Summary[k + 1].category)
    /\ \A k \in DOMAIN Summary :
          RowsOfMonth(Summary[k].category) = {} => Summary[k].spent = 0

\* get_budget_summary has just returned the rows of two budgets saved in
\* descending order of category, one spent from this month and one not
C14_Witness ==
    /\ last.call = "get_budget_summary" /\ last.ok /\ Len(last.rows) = 2
    /\ Len(budgets) = 2 /\ budgets[1].category = "Transportation"
    /\ \E i \in DOMAIN last.rows : last.rows[i].spent = 0
    /\ \E i \in DOMAIN last.rows : last.rows[i].spent > 0

\* get_transactions has just returned to a caller without failing
Listed == last.call = "get_transactions" /\ last.ok

\* C15: get_transactions returns transactions in non-increasing order of
\* transaction_date; with an integer limit n >= 0 it returns exactly
\* min(n, ledger size) of them and no omitted transaction has a later date than
\* a returned one; without a limit it returns every transaction.
C15_ListOrderedAndLimited ==
    Listed =>
        /\ \A i, j \in DOMAIN last.rows :
              i < j => MonthsSince(last.rows[i].transaction_date,
                                   last.rows[j].transaction_date) <= 0
        /\ \A i \in DOMAIN last.rows :
              /\ \E j \in DOMAIN ledger : ledger[j] = last.rows[i]
              /\ \A k \in DOMAIN last.rows : k # i => last.rows[k].id # last.rows[i].id
        /\ Len(last.rows) = IF last.arg = None \/ Len(ledger) < last.arg[1]
                            THEN Len(ledger) ELSE last.arg[1]
        /\ \A j \in DOMAIN ledger :
              (\A i \in DOMAIN last.rows : last.rows[i] # ledger[j]) =>
                  \A i \in DOMAIN last.rows :
                      MonthsSince(last.rows[i].transaction_date,
                                  ledger[j].transaction_date) <= 0

IdsIncrease == \A i, j \in DOMAIN ledger : i < j => ledger[i].id < ledger[j].id

IdsAssignedOnce ==
    /\ \A j \in DOMAIN ledger : j \in DOMAIN ledger' /\ ledger'[j].id = ledger[j].id
    /\ (last'.call = "insert_transaction" /\ last'.id # 0) =>
          /\ Len(ledger') = Len(ledger) + 1
          /\ ledger'[Len(ledger')].id = last'.id
          /\ \A j \in DOMAIN ledger : ledger[j].id < last'.id

Blank(vendor) == vendor \in {"", " "}

\* C18: the vendor is validated on its trimmed value: a vendor of whitespace
\* only is rejected like an empty one, and no ledger row is written for it.
C18_BlankVendorRejected ==
    \A j \in DOMAIN ledger : ~Blank(ledger[j].vendor)

\* the receipt form has been drawn for a receipt whose date is missing or does
\* not parse as YYYY-MM-DD
DateSubstituted == last.call = "show_scanner" /\ ~strptime(last.arg).ok

\* C19: when the extracted date is missing or does not parse as YYYY-MM-DD, the
\* date offered for recording is the current date, and the substitution is
\* observable: what the form shows differs from what it shows for a receipt
\* whose date parsed to the current date.
C19_DateFallbackObservable ==
    DateSubstituted =>
        /\ last.form.default_date = today
        /\ \A text \in ExtractedDates :
              (strptime(text).ok /\ strptime(text).date = today)
                  => ReviewForm(text, today) # last.form

\* every category upserted so far has exactly one row, and no other has a row
OneRowPerUpserted ==
    /\ \A c \in DOMAIN lastSet :
          Cardinality({i \in DOMAIN budgets : budgets[i].category = c}) = 1
    /\ \A i \in DOMAIN budgets : budgets[i].category \in DOMAIN lastSet

\* the row of a category holds the limit of the upsert committed last for it
\* (limits in mills, stored limits in cents)
LimitOfLastCommitted ==
    \A c \in DOMAIN lastSet : \A i \in DOMAIN budgets :
        budgets[i].category = c => budgets[i].monthly_limit * 10 = lastSet[c]

\* a commit leaves the table as the same upsert run alone would
CommitsSerialize ==
    \A s \in Sessions :
        (sessions[s].pc = "executed" /\ sessions'[s].pc = "idle" /\ last'.ok) =>
            budgets' = upsert_budget(budgets, sessions[s].category,
                                     sessions[s].monthly_limit, "ok").rows

\* C20: for two or more concurrent upserts of the same category every
\* interleaving ends with exactly one row for the category, whose monthly_limit
\* is the limit of one of those upserts, the one serialized last: never two
\* rows, a lost row, or a limit that none of them supplied.
C20_ConcurrentUpsertsSerialize ==
    [](OneRowPerUpserted /\ LimitOfLastCommitted) /\ [][CommitsSerialize]_vars

\* the statement of one connection, issued while the other had its upsert of
\* the same category in flight, has waited for that one to commit and has then
\* run as an update of the one row, with another limit
C20_Witness ==
    /\ \E s \in Sessions :
          /\ sessions[s].pc = "executed" /\ sessions[s].plan = "update"
          /\ sessions[s].overlap
          /\ sessions[s].category \in DOMAIN lastSet
          /\ lastSet[sessions[s].category] # sessions[s].monthly_limit
          /\ budgets[1].category = sessions[s].category
    /\ Len(budgets) = 1

\* the rows other connections hold stay as they are, and so does the table
\* while nothing is committed
OwnRowOnly ==
    \A s \in Sessions :
        IF inserting[s].pc = "executed" /\ inserting'[s].pc = "idle"
        THEN IF last'.id # 0
             THEN /\ last'.id = inserting[s].row.id
                  /\ Len(ledger') = Len(ledger) + 1
                  /\ ledger'[Len(ledger')] = inserting[s].row
                  /\ \A j \in DOMAIN ledger : ledger'[j] = ledger[j]
             ELSE ledger' = ledger
        ELSE inserting'[s].pc = inserting[s].pc =>
                 (inserting'[s] = inserting[s] /\ (last'.id = 0 => ledger' = ledger))

\* no two rows, committed or still to be committed, have the same id
InsertedIdsDiffer ==
    /\ \A i, j \in DOMAIN ledger : i # j => ledger[i].id # ledger[j].id
    /\ \A s \in Sessions : inserting[s].pc = "executed" =>
          /\ \A j \in DOMAIN ledger : ledger[j].id # inserting[s].row.id
          /\ \A t \in Sessions \ {s} :
                inserting[t].pc = "executed" => inserting[t].row.id # inserting[s].row.id

\* with every insert committed or rolled back, the summary counts every
\* committed row of the current month
SpentCountsCommitted ==
    (\A s \in Sessions : inserting[s].pc = "idle") =>
        \A i \in DOMAIN Summary :
            Summary[i].spent = SumAmounts(ledger, RowsOfMonth(Summary[i].category))

\* C21: concurrent inserts are independent: under every interleaving each insert
\* that returns an id has added exactly its own row, no insert overwrites or
\* drops the row of another, and the summary evaluated after all of them have
\* committed reports for a category the sum of all its committed rows of the
\* current month.
C21_ConcurrentInsertsIndependent ==
    [](InsertedIdsDiffer /\ SpentCountsCommitted) /\ [][OwnRowOnly]_vars

\* the summary has been read after two overlapping inserts of the current month
\* committed in the order opposite to that of their ids
C21_Witness ==
    /\ last.call = "get_budget_summary" /\ last.ok
    /\ \A s \in Sessions : inserting[s].pc = "idle"
    /\ Len(ledger) = 2 /\ ledger[1].id > ledger[2].id
    /\ \A j \in DOMAIN ledger : ledger[j].transaction_date = today
    /\ Len(last.rows) = 1 /\ last.rows[1].spent = ledger[1].amount + ledger[2].amount

\* C22: get_database returns the same DatabaseManager instance on every call of
\* a process, and init_tables is attempted at most once, only inside the first
\* call and only if the connection test succeeds then: when the store is
\* unreachable on the first call, no later call initializes the tables.
C22_SingleInstanceInitOnce ==
    /\ Cardinality(history.returned) <= 1
    /\ history.created <= 1
    /\ history.init_calls <= 1
    /\ history.first_test = "error" => history.init_calls = 0

\* the monthly limits the budget rows of a category hold
LimitsOf(B, category) ==
    {B[i].monthly_limit : i \in {k \in DOMAIN B : B[k].category = category}}

\* C23: insert_transaction, successful or not, leaves every budget row as it
\* was; upsert_budget, successful or not, leaves the ledger as it was, and an
\* upsert for one category leaves the monthly limit of every other category
\* as it was (no row of another category added, removed or changed).
C23_WritesKeepOtherTable ==
    [][/\ last'.call = "insert_transaction" => budgets' = budgets
       /\ last'.call = "upsert_budget" =>
             /\ ledger' = ledger
             /\ \A category \in CATEGORIES \ {last'.category} :
                   LimitsOf(budgets', category) = LimitsOf(budgets, category)]_vars

\* a budget saved while the other category holds a different limit and the
\* ledger has rows
C23_Witness ==
    /\ last.call = "upsert_budget"
    /\ last.ok
    /\ Len(ledger) > 0
    /\ Len(budgets) = 2
    /\ \E i \in DOMAIN budgets :
          /\ budgets[i].category # last.category
          /\ budgets[i].monthly_limit # DecimalRound(last.limit)
====
